---- MODULE Spec2Model ----
(***************************************************************************)
(* react-sticky: the Container (scroll broadcaster, src/src/Container.tsx) *)
(* and the Sticky element (src/src/Sticky.tsx) as one state machine.       *)
(*                                                                         *)
(* A Container owns the subscriber registry, the pending flag, the frame   *)
(* handle and the frame callbacks it has scheduled.  A Sticky owns its     *)
(* props, its published StickyState, its placeholder's padding and the     *)
(* closure of the handleContainerEvent it subscribed when it mounted.      *)
(* React re-renders are part of the operation that causes them: a          *)
(* setSubscribers re-renders the Container, which re-creates               *)
(* notifySubscribers and re-runs the event-binding effect.                 *)
(***************************************************************************)
EXTENDS Integers, Sequences, FiniteSets, TLC

VARIABLES
    containerMounted,  \* Container.tsx:35  node.current is the mounted root div
    windowBound,       \* Container.tsx:69-82  notifySubscribers is bound to the window
    subscribers,       \* Container.tsx:31  the registry, a sequence of handlers
    framePending,      \* Container.tsx:34  framePending.current
    rafHandle,         \* Container.tsx:32  rafHandle.current, 0 for null
    rafCount,          \* Container.tsx:52  the last handle raf() gave out
    rafQueue,          \* Container.tsx:52-61  callbacks scheduled, not fired, not cancelled
    scrollTop,         \* Sticky.tsx:190  the root node's scrollTop
    status,            \* Sticky.tsx:238-248  per Sticky: "new", "mounted", "unmounted", "error"
    props,             \* Sticky.tsx:20-105  per Sticky: the props of its latest render
    closure,           \* Sticky.tsx:179-248  per Sticky: what the subscribed handler closed over
    state,             \* Sticky.tsx:120-127  per Sticky: the published StickyState
    padding,           \* Sticky.tsx:214-217  per Sticky: placeholder.style.paddingBottom
    delivered,         \* Container.tsx:55-60  the handlers the latest broadcast invoked, in order
    ignored,           \* Container.tsx:50  an event found the pending flag set since it was last clear
    nodeInFrame,       \* Container.tsx:92-99  an event since the latest broadcast came from the root node
    unmountCancelled,  \* Container.tsx:73-77  the Container's unmount cancelled a pending callback
    running,           \* Container.tsx:55-60  forEach at work: the array it walks, the index it is at
    repeated           \* Sticky.tsx:179-236  the latest broadcast handed a Sticky the sample it handled last

vars == <<containerMounted, windowBound, subscribers, framePending, rafHandle,
          rafCount, rafQueue, scrollTop, status, props, closure, state,
          padding, delivered, ignored, nodeInFrame, unmountCancelled,
          running, repeated>>

containerVars == <<containerMounted, windowBound, subscribers, framePending,
                   rafHandle, rafCount, rafQueue>>
stickyVars == <<status, props, closure, state, padding>>
historyVars == <<delivered, ignored, nodeInFrame, unmountCancelled, running,
                 repeated>>

---------------------------------------------------------------------------
(* Bounds of the model. *)

\* frame callbacks a behaviour may schedule
MaxFrames == 2
\* largest topOffset / bottomOffset prop
MaxOffset == 1
\* largest measured content height
MaxHeight == 1
\* largest scrollTop of the root node
MaxScroll == 1

\* longest registry a caller of subscribe / unsubscribe builds
MaxSubscribers == 3

Stickies == {"s1"}

\* listeners that descendants register through the context themselves
Handlers == {"h1", "h2"}

\* what a listener does with the context while it handles a sample: nothing,
\* or one call of subscribe or unsubscribe
HandlerCalls ==
    {<<>>} \cup {<<[kind |-> k, handler |-> h]>> :
                    k \in {"subscribe", "unsubscribe"}, h \in Handlers}

Offsets == 0 .. MaxOffset
Heights == 1 .. MaxHeight
ScrollTops == 0 .. MaxScroll
\* distances around the thresholds the offsets set
Tops == -MaxOffset .. 1
Bottoms == -MaxOffset .. MaxHeight + 1

\* getBoundingClientRect() of the root node: top and bottom
Rects == {r \in [top : Tops, bottom : Bottoms] : r.top <= r.bottom}

\* StickyProps, with the optional ones at the value the code defaults them to
PropsSet == [relative : BOOLEAN, topOffset : Offsets, bottomOffset : Offsets,
             disableCompensation : BOOLEAN,
             disableHardwareAcceleration : BOOLEAN]

DefaultProps == [relative |-> FALSE, topOffset |-> 0, bottomOffset |-> 0,
                 disableCompensation |-> FALSE,
                 disableHardwareAcceleration |-> FALSE]

\* layout the model keeps fixed: the root node's offsetTop, its
\* offsetParent's scrollTop, the placeholder's offsetTop and client rectangle
ParentOffsetTop == 1
OffsetParentScrollTop == 0
PlaceholderOffsetTop == 2
PlaceholderLeft == 3
PlaceholderWidth == 4

\* the props a Sticky is given: the defaults, and each option set in turn
Configs ==
    {DefaultProps,
     [DefaultProps EXCEPT !.relative = TRUE],
     [DefaultProps EXCEPT !.disableCompensation = TRUE],
     [DefaultProps EXCEPT !.disableHardwareAcceleration = TRUE]}
    \cup {[DefaultProps EXCEPT !.topOffset = o] : o \in Offsets}
    \cup {[DefaultProps EXCEPT !.bottomOffset = o] : o \in Offsets}

Targets == {"window", "node"}

\* the value of StickyContext a Sticky reads: the names of its members.
\* The default value is {}; a Container provides all three.
DefaultContext == {}
ContainerContext == {"subscribe", "unsubscribe", "getParent"}

---------------------------------------------------------------------------
(* Container.tsx *)

\* an updater that keeps a handler the registry holds already to one entry
subscribeOnce(prev, handler) ==
    IF \E i \in 1 .. Len(prev) : prev[i] = handler THEN prev
    ELSE Append(prev, handler)

\* subscribe's updater
subscribe(prev, handler) == Append(prev, handler)

\* unsubscribe's updater
unsubscribe(prev, handler) ==
    Append(SelectSeq(prev, LAMBDA current : current # handler), handler)

\* raf.cancel(handle)
cancel(queue, handle) == {f \in queue : f.handle # handle}

\* a cleanup that leaves the frame callback scheduled
cleanupQueueNoCancel(queue, handle) == queue

\* the cleanup of the event-binding effect: the frame callback part
cleanupQueue(queue, handle) == IF handle # 0 THEN cancel(queue, handle) ELSE queue

Range(seq) == {seq[i] : i \in 1 .. Len(seq)}

---------------------------------------------------------------------------
(* Sticky.tsx *)

EmptyStyle == [k \in {} |-> 0]

InitialState == [isSticky |-> FALSE, wasSticky |-> FALSE, distanceFromTop |-> 0,
                 distanceFromBottom |-> 0, calculatedHeight |-> 0,
                 style |-> EmptyStyle]

\* a CSS length as the code writes it: `${n}px`, or the string "0"
Px(n) == <<n, "px">>
Zero == <<0, "">>
PaddingValue(p) == p[1]

\* calculateStyle, with the props its closure holds
calculateStyle(p, isSticky, distanceFromBottom, calculatedHeight) ==
    LET bottomDifference == distanceFromBottom - p.bottomOffset - calculatedHeight
        relTop == ParentOffsetTop - OffsetParentScrollTop
    IN  IF ~isSticky THEN EmptyStyle
        ELSE IF p.relative
        THEN IF bottomDifference <= 0
             THEN [position |-> "absolute", top |-> relTop + bottomDifference,
                   width |-> PlaceholderWidth, clipPath |-> -bottomDifference]
             ELSE [position |-> "absolute", top |-> relTop,
                   width |-> PlaceholderWidth]
        ELSE [position |-> "fixed",
              top |-> IF bottomDifference > 0 THEN 0 ELSE bottomDifference,
              left |-> PlaceholderLeft, width |-> PlaceholderWidth]

\* the distanceFromTop the handler works with
effectiveTop(p, rect, st) ==
    IF p.relative THEN -(st + ParentOffsetTop) + PlaceholderOffsetTop
    ELSE rect.top

\* an isSticky whose bottom test lets the boundary value through
computeIsStickyInclusive(p, distanceFromTop, distanceFromBottom) ==
    /\ distanceFromTop <= -p.topOffset
    /\ distanceFromBottom >= -p.bottomOffset

\* the isSticky the handler computes
computeIsSticky(p, distanceFromTop, distanceFromBottom) ==
    /\ distanceFromTop <= -p.topOffset
    /\ distanceFromBottom > -p.bottomOffset

\* a transform hint that is added until a published style carries it
withTransformOnce(p, style) ==
    IF /\ ~p.disableHardwareAcceleration
       /\ \A s \in Stickies : "transform" \notin DOMAIN state[s].style
    THEN style @@ [transform |-> "translateZ(0)"]
    ELSE style

\* the transform hint the handler adds to the style calculateStyle returned
withTransform(p, style) ==
    IF ~p.disableHardwareAcceleration
    THEN style @@ [transform |-> "translateZ(0)"]
    ELSE style

\* the padding the handler writes to the placeholder
handlerPadding(p, isSticky, calculatedHeight) ==
    Px(IF isSticky THEN calculatedHeight ELSE 0)

\* the padding the disableCompensation effect writes
effectPadding(p, st) ==
    IF p.disableCompensation THEN Zero
    ELSE Px(IF st.isSticky THEN st.calculatedHeight ELSE 0)

\* handleContainerEvent as subscribed: c is its closure (the props and the
\* state of the render that created it), rect the sample, st the root node's
\* scrollTop and h the measured content height
handleContainerEvent(c, rect, st, h) ==
    LET distanceFromTop == effectiveTop(c.props, rect, st)
        wasSticky == c.state.isSticky
        isSticky == computeIsSticky(c.props, distanceFromTop, rect.bottom)
        style == calculateStyle(c.props, isSticky, rect.bottom, h)
    IN  [isSticky |-> isSticky, wasSticky |-> wasSticky,
         distanceFromBottom |-> rect.bottom - h,
         distanceFromTop |-> distanceFromTop,
         style |-> withTransform(c.props, style),
         calculatedHeight |-> h]

---------------------------------------------------------------------------
(* The state after the Container mounted: its effect has bound the events, *)
(* no Sticky has mounted yet.                                              *)

Init ==
    /\ containerMounted = TRUE
    /\ windowBound = TRUE
    /\ subscribers = <<>>
    /\ framePending = FALSE
    /\ rafHandle = 0
    /\ rafCount = 0
    /\ rafQueue = {}
    /\ scrollTop \in ScrollTops
    /\ status = [s \in Stickies |-> "new"]
    /\ props = [s \in Stickies |-> DefaultProps]
    /\ closure = [s \in Stickies |-> [props |-> DefaultProps, state |-> InitialState]]
    /\ state = [s \in Stickies |-> InitialState]
    /\ padding = [s \in Stickies |-> Zero]
    /\ delivered = <<>>
    /\ ignored = FALSE
    /\ nodeInFrame = FALSE
    /\ unmountCancelled = FALSE
    /\ running = [array |-> <<>>, next |-> 0]
    /\ repeated = FALSE

\* The Container re-renders with a new subscribers array: notifySubscribers
\* is re-created, so the event-binding effect cleans up and binds again.
ContainerRerender(newSubscribers) ==
    /\ subscribers' = newSubscribers
    /\ rafQueue' = cleanupQueue(rafQueue, rafHandle)
    /\ rafHandle' = 0
    /\ UNCHANGED <<containerMounted, windowBound, framePending, rafCount>>

\* a test that schedules whatever the pending flag says
shouldScheduleAlways(pending) == TRUE

\* notifySubscribers' test of the pending flag
shouldSchedule(pending) == ~pending

\* notifySubscribers(evt)
notifySubscribers(target) ==
    /\ nodeInFrame' = (nodeInFrame \/ target = "node")
    /\ IF shouldSchedule(framePending)
       THEN /\ rafCount < MaxFrames
            /\ rafCount' = rafCount + 1
            /\ rafHandle' = rafCount + 1
            /\ rafQueue' = rafQueue \cup
                  {[handle |-> rafCount + 1, subscribers |-> subscribers,
                    currentTarget |-> target]}
            /\ framePending' = TRUE
            /\ ignored' = FALSE
       ELSE /\ ignored' = TRUE
            /\ UNCHANGED <<rafCount, rafHandle, rafQueue, framePending>>
    /\ UNCHANGED <<containerMounted, windowBound, subscribers>>

\* one of the window's events reaches the listener the effect bound, if any
WindowEvent ==
    /\ IF windowBound
       THEN notifySubscribers("window")
       ELSE UNCHANGED <<containerVars, ignored, nodeInFrame>>
    /\ UNCHANGED <<scrollTop, stickyVars, delivered, unmountCancelled, running,
                   repeated>>

\* a scroll or touch event on the root node
NodeEvent ==
    /\ containerMounted
    /\ scrollTop' \in ScrollTops
    /\ notifySubscribers("node")
    /\ UNCHANGED <<stickyVars, delivered, unmountCancelled, running, repeated>>

\* a Sticky mounts inside the Container: its effects run, subscribe included
Mount(s, p) ==
    /\ containerMounted
    /\ status[s] = "new"
    /\ status' = [status EXCEPT ![s] = "mounted"]
    /\ props' = [props EXCEPT ![s] = p]
    /\ closure' = [closure EXCEPT ![s] = [props |-> p, state |-> InitialState]]
    /\ padding' = [padding EXCEPT ![s] = effectPadding(p, InitialState)]
    /\ ContainerRerender(subscribe(subscribers, s))
    /\ UNCHANGED <<state, scrollTop, historyVars>>

\* a subscribe effect that returns when the context has no subscribe
subscribeEffectLenient(context) ==
    IF "subscribe" \notin context THEN "return" ELSE "subscribe"

\* the Sticky's subscribe effect, by what it does with the context it read
subscribeEffect(context) ==
    IF "subscribe" \notin context THEN "throw" ELSE "subscribe"

\* a Sticky mounts with no Container above it: useContext gives the default
\* value and the subscribe effect runs on it.  The TypeError thrown in the
\* effect is not caught, so React removes the tree the Sticky is in.
MountOutside(s, p) ==
    /\ status[s] = "new"
    /\ subscribeEffect(DefaultContext) # "subscribe"
    /\ status' = [status EXCEPT ![s] =
          IF subscribeEffect(DefaultContext) = "throw" THEN "error" ELSE "mounted"]
    /\ props' = [props EXCEPT ![s] =
          IF subscribeEffect(DefaultContext) = "throw" THEN @ ELSE p]
    /\ UNCHANGED <<closure, state, padding, containerVars, scrollTop, historyVars>>

\* a Sticky unmounts while its Container stays: its effect's cleanup runs
Unmount(s) ==
    /\ containerMounted
    /\ status[s] = "mounted"
    /\ status' = [status EXCEPT ![s] = "unmounted"]
    /\ props' = [props EXCEPT ![s] = DefaultProps]
    /\ state' = [state EXCEPT ![s] = InitialState]
    /\ padding' = [padding EXCEPT ![s] = Zero]
    /\ ContainerRerender(unsubscribe(subscribers, s))
    /\ UNCHANGED <<closure, scrollTop, historyVars>>

\* a mounted Sticky re-renders with other props
SetProps(s, p) ==
    /\ status[s] = "mounted"
    /\ p # props[s]
    /\ props' = [props EXCEPT ![s] = p]
    /\ padding' = [padding EXCEPT ![s] =
          IF p.disableCompensation # props[s].disableCompensation
          THEN effectPadding(p, state[s]) ELSE @]
    /\ UNCHANGED <<status, closure, state, containerVars, scrollTop, historyVars>>

\* the sample (rect, h), with the root node's scrollTop as it is, is the one
\* the Sticky s handled last: the published distances and height are those
\* this sample gives (the published distanceFromBottom is less the height)
SameSample(s, rect, h) ==
    /\ state[s].calculatedHeight = h
    /\ state[s].distanceFromBottom = rect.bottom - h
    /\ state[s].distanceFromTop = effectiveTop(closure[s].props, rect, scrollTop)

\* the frame callback f hands its sample to the handler of s, and s is
\* mounted: its setState and its placeholder are still there
Handles(f, s) == s \in Range(f.subscribers) /\ status[s] = "mounted"

\* a frame callback fires: the root node is measured and the sample is
\* handed to every handler of the subscribers array the callback closed over
Fire(f, rect, h) ==
    /\ f \in rafQueue
    /\ rafQueue' = rafQueue \ {f}
    /\ framePending' = FALSE
    /\ delivered' = f.subscribers
    /\ state' = [s \in Stickies |->
          IF Handles(f, s)
          THEN handleContainerEvent(closure[s], rect, scrollTop, h)
          ELSE state[s]]
    /\ padding' = [s \in Stickies |->
          IF Handles(f, s)
          THEN handlerPadding(closure[s].props,
                   handleContainerEvent(closure[s], rect, scrollTop, h).isSticky, h)
          ELSE padding[s]]
    /\ ignored' = FALSE
    /\ nodeInFrame' = FALSE
    /\ repeated' = \E s \in Stickies : Handles(f, s) /\ SameSample(s, rect, h)
    /\ UNCHANGED <<containerMounted, windowBound, subscribers, rafHandle,
                   rafCount, scrollTop, status, props, closure, unmountCancelled,
                   running>>

\* the Container unmounts, and every Sticky inside it with it
UnmountContainer ==
    /\ containerMounted
    /\ containerMounted' = FALSE
    /\ windowBound' = FALSE
    /\ rafQueue' = cleanupQueue(rafQueue, rafHandle)
    /\ rafHandle' = 0
    /\ unmountCancelled' = (rafQueue # {})
    /\ status' = [s \in Stickies |->
                     IF status[s] = "mounted" THEN "unmounted" ELSE status[s]]
    /\ props' = [s \in Stickies |-> DefaultProps]
    /\ state' = [s \in Stickies |-> InitialState]
    /\ padding' = [s \in Stickies |-> Zero]
    /\ UNCHANGED <<subscribers, framePending, rafCount, scrollTop, closure,
                   delivered, ignored, nodeInFrame, running, repeated>>

Next ==
    \/ WindowEvent
    \/ NodeEvent
    \/ \E s \in Stickies, p \in Configs : Mount(s, p)
    \/ \E s \in Stickies, p \in Configs : MountOutside(s, p)
    \/ \E s \in Stickies : Unmount(s)
    \/ \E s \in Stickies, p \in Configs : SetProps(s, p)
    \/ \E f \in rafQueue, rect \in Rects, h \in Heights : Fire(f, rect, h)
    \/ UnmountContainer

Spec == Init /\ [][Next]_vars

\* some scheduled, not cancelled frame callback fires
Broadcast == \E f \in rafQueue, rect \in Rects, h \in Heights : Fire(f, rect, h)

\* raf runs every callback that is scheduled and not cancelled
FairSpec == Spec /\ WF_vars(Broadcast)

\* the Container and Stickies whose props stay as they were mounted with
NextSteady ==
    \/ WindowEvent
    \/ NodeEvent
    \/ \E s \in Stickies, p \in Configs : Mount(s, p)
    \/ \E s \in Stickies : Unmount(s)
    \/ \E f \in rafQueue, rect \in Rects, h \in Heights : Fire(f, rect, h)
    \/ UnmountContainer

SpecSteady == Init /\ [][NextSteady]_vars

TypeOK ==
    /\ containerMounted \in BOOLEAN
    /\ framePending \in BOOLEAN
    /\ rafHandle \in 0 .. MaxFrames
    /\ rafCount \in 0 .. MaxFrames
    /\ scrollTop \in ScrollTops
    /\ \A s \in Stickies : status[s] \in {"new", "mounted", "unmounted", "error"}
    /\ \A s \in Stickies : props[s] \in PropsSet

---------------------------------------------------------------------------
(* The Container alone, with listeners that call the context's subscribe   *)
(* and unsubscribe themselves, also while a broadcast hands them a sample. *)
(* The broadcast is taken listener by listener.                            *)

Broadcasting == running.next > 0

\* a forEach that reads the registry as it is at each index
iteratedLive(array, registry) == registry

\* the array forEach walks: the subscribers array the callback closed over;
\* setSubscribers' updaters build new arrays and leave it as it was
iterated(array, registry) == array

\* the registry after the calls a listener makes
registryAfter(registry, calls) ==
    IF calls = <<>> THEN registry
    ELSE IF calls[1].kind = "subscribe"
         THEN subscribe(registry, calls[1].handler)
         ELSE unsubscribe(registry, calls[1].handler)

\* an event of the window, between frame callbacks
RegistryEvent ==
    /\ ~Broadcasting
    /\ WindowEvent

\* context.subscribe(h), between frame callbacks
CallSubscribe(h) ==
    /\ containerMounted
    /\ ~Broadcasting
    /\ Len(subscribers) < MaxSubscribers
    /\ ContainerRerender(subscribe(subscribers, h))
    /\ UNCHANGED <<scrollTop, stickyVars, historyVars>>

\* context.unsubscribe(h), between frame callbacks
CallUnsubscribe(h) ==
    /\ containerMounted
    /\ ~Broadcasting
    /\ Len(unsubscribe(subscribers, h)) <= MaxSubscribers
    /\ ContainerRerender(unsubscribe(subscribers, h))
    /\ UNCHANGED <<scrollTop, stickyVars, historyVars>>

\* the frame callback f starts: it clears the pending flag and forEach
\* starts on the array f closed over
BeginBroadcast(f) ==
    /\ f \in rafQueue
    /\ ~Broadcasting
    /\ rafQueue' = rafQueue \ {f}
    /\ framePending' = FALSE
    /\ running' = [array |-> f.subscribers, next |-> 1]
    /\ delivered' = <<>>
    /\ ignored' = FALSE
    /\ nodeInFrame' = FALSE
    /\ UNCHANGED <<containerMounted, windowBound, subscribers, rafHandle,
                   rafCount, scrollTop, stickyVars, unmountCancelled, repeated>>

\* forEach invokes the listener at its index, and the listener makes its
\* calls; forEach passes an index the array no longer has
Invoke(calls) ==
    /\ Broadcasting
    /\ running.next <= Len(running.array)
    /\ Len(registryAfter(subscribers, calls)) <= MaxSubscribers
    /\ running' = [running EXCEPT !.next = @ + 1]
    /\ delivered' =
          IF running.next <= Len(iterated(running.array, subscribers))
          THEN Append(delivered, iterated(running.array, subscribers)[running.next])
          ELSE delivered
    /\ IF calls = <<>>
       THEN UNCHANGED containerVars
       ELSE ContainerRerender(registryAfter(subscribers, calls))
    /\ UNCHANGED <<scrollTop, stickyVars, ignored, nodeInFrame, unmountCancelled,
                   repeated>>

\* forEach is through the array: the frame callback returns
EndBroadcast ==
    /\ Broadcasting
    /\ running.next > Len(running.array)
    /\ running' = [running EXCEPT !.next = 0]
    /\ UNCHANGED <<containerVars, scrollTop, stickyVars, delivered, ignored,
                   nodeInFrame, unmountCancelled, repeated>>

NextRegistry ==
    \/ RegistryEvent
    \/ \E h \in Handlers : CallSubscribe(h)
    \/ \E h \in Handlers : CallUnsubscribe(h)
    \/ \E f \in rafQueue : BeginBroadcast(f)
    \/ \E calls \in HandlerCalls : Invoke(calls)
    \/ EndBroadcast

SpecRegistry == Init /\ [][NextRegistry]_vars

---------------------------------------------------------------------------
(* The claims. *)

\* C1: once unsubscribe(h) ran for a registered handler h (a Sticky
\* unmounting), h is not in the registry and no later broadcast invokes h.
C1_UnsubscribedIsGone ==
    [][/\ \A s \in Stickies : Unmount(s) => s \notin Range(subscribers')
       /\ \A f \in rafQueue, rect \in Rects, h \in Heights :
            Fire(f, rect, h) =>
               \A s \in Stickies :
                  status[s] = "unmounted" => s \notin Range(delivered')]_vars

\* C2: the wasSticky published for a sample is the isSticky computed for the
\* sample the same Sticky handled before (FALSE for the first sample).
C2_WasStickyIsPreviousIsSticky ==
    [][\A f \in rafQueue, rect \in Rects, h \in Heights :
          Fire(f, rect, h) =>
             \A s \in Stickies :
                Handles(f, s) => state'[s].wasSticky = state[s].isSticky]_vars

\* C3: a non-relative Sticky with offsets topOffset and bottomOffset
\* publishes isSticky = (distanceFromTop <= -topOffset) /\
\* (distanceFromBottom > -bottomOffset), on the sample's raw values.
C3_IsStickyFormula ==
    [][\A f \in rafQueue, rect \in Rects, h \in Heights :
          Fire(f, rect, h) =>
             \A s \in Stickies :
                (Handles(f, s) /\ ~props[s].relative) =>
                   state'[s].isSticky =
                      (/\ rect.top <= -props[s].topOffset
                       /\ rect.bottom > -props[s].bottomOffset)]_vars

\* C4: with disableCompensation = TRUE the placeholder's bottom padding is 0
\* after every handled sample.
C4_NoCompensationPadding ==
    \A s \in Stickies :
       (status[s] = "mounted" /\ props[s].disableCompensation) =>
          PaddingValue(padding[s]) = 0

\* C5: whenever isSticky is FALSE the published style has no properties; the
\* transform hint is only in styles published with isSticky = TRUE.
C5_EmptyStyleWhenNotSticky ==
    \A s \in Stickies :
       /\ ~state[s].isSticky => DOMAIN state[s].style = {}
       /\ "transform" \in DOMAIN state[s].style => state[s].isSticky

C7_OnePendingFrame ==
    [][/\ Cardinality(rafQueue') <= 1
       /\ rafQueue # {} => rafQueue' \subseteq rafQueue]_vars

\* an event arrived while a frame callback was pending, and one is pending
C7_Witness == ignored /\ Cardinality(rafQueue) = 1 /\ subscribers # <<>>

\* C8: once the Container unmounted, no frame callback of it is left or
\* scheduled, and no listener is invoked.
C8_SilentAfterUnmount ==
    [][~containerMounted' =>
          /\ rafQueue' = {}
          /\ ~windowBound'
          /\ delivered' = delivered]_vars

\* the Container unmounted with listeners registered and a frame callback
\* pending, which the unmount cancelled
C8_Witness ==
    ~containerMounted /\ unmountCancelled /\ subscribers # <<>> /\ rafQueue = {}

\* C9: the isSticky of a Sticky in relative mode does not change in a
\* broadcast that only events of the window led to.
C9_RelativeIgnoresWindow ==
    [][\A f \in rafQueue, rect \in Rects, h \in Heights :
          (Fire(f, rect, h) /\ ~nodeInFrame) =>
             \A s \in Stickies :
                (Handles(f, s) /\ props[s].relative) =>
                   state'[s].isSticky = state[s].isSticky]_vars

\* C10: a non-relative Sticky published sticky has position fixed and
\* top = 0 when distanceFromBottom - bottomOffset - calculatedHeight > 0, and
\* top equal to that difference otherwise.
C10_FixedTop ==
    [][\A f \in rafQueue, rect \in Rects, h \in Heights :
          Fire(f, rect, h) =>
             \A s \in Stickies :
                (Handles(f, s) /\ ~props[s].relative /\ state'[s].isSticky) =>
                   LET bottomDifference == rect.bottom - props[s].bottomOffset - h
                   IN  /\ state'[s].style.position = "fixed"
                       /\ state'[s].style.top =
                             IF bottomDifference > 0 THEN 0 ELSE bottomDifference
                       /\ state'[s].style.top <= 0]_vars

\* C11: a Sticky mounted with no Container above it raises an error in its
\* setup: it registers no listener, and it never handles a sample.
C11_ErrorWithoutContainer ==
    /\ [](\A s \in Stickies :
            status[s] = "error" =>
               /\ s \notin Range(subscribers)
               /\ s \notin Range(delivered)
               /\ state[s].calculatedHeight = 0
               /\ ~state[s].isSticky)
    /\ [][\A s \in Stickies, p \in Configs :
            MountOutside(s, p) =>
               (status'[s] = "error" /\ subscribers' = subscribers)]_vars

\* a Sticky failed to mount outside, and the Container has broadcast since
C11_Witness ==
    \E s \in Stickies :
       status[s] = "error" /\ containerMounted /\ rafCount > 0 /\ rafQueue = {}
          /\ ~framePending

\* C12: unsubscribe(h) for a handler h that is not in the registry leaves
\* the registry as it is (and raises no error).
C12_UnsubscribeAbsentIsNoOp ==
    [][\A h \in Handlers :
          (CallUnsubscribe(h) /\ h \notin Range(subscribers)) =>
             subscribers' = subscribers]_vars

\* C13: while the Container stays mounted, every event it receives is
\* eventually followed by a broadcast, whatever mounts or unmounts while a
\* frame callback is pending.  An event leaves the pending flag set (it sets
\* it, or finds it set), and only a broadcast clears it.
C13_EventLeadsToBroadcast ==
    (containerMounted /\ framePending) ~> (~framePending \/ ~containerMounted)

\* C14: framePending is true only if a frame callback is scheduled, not
\* yet fired and not cancelled; after a callback was cancelled or fired the
\* flag is false.  Stated for a Container that is still mounted.
C14_PendingFlagHasCallback ==
    (containerMounted /\ framePending) => rafQueue # {}

\* C15: a broadcast goes to the registry as it is when the frame callback
\* fires: a listener registered between the event that scheduled the
\* callback and its firing receives that frame's sample, one unregistered in
\* between does not.  So a registration or an unregistration leaves the
\* scheduled callback to fire, and the callback that fires invokes the
\* registry of that moment.
C15_BroadcastToRegistryAtFiring ==
    [][/\ \A f \in rafQueue, rect \in Rects, h \in Heights :
            Fire(f, rect, h) => delivered' = subscribers
       /\ \A s \in Stickies :
            ((\E p \in Configs : Mount(s, p)) \/ Unmount(s)) =>
               rafQueue' = rafQueue]_vars

\* C16: a broadcast is atomic with respect to the subscribe and unsubscribe
\* calls its listeners make while it runs: it invokes the entries of the
\* array it started on, each once and in order, and no listener added
\* meanwhile.  While it runs it has invoked the entries before its index;
\* once it returned it has invoked exactly the array.
C16_BroadcastOverSnapshot ==
    delivered = IF Broadcasting
                THEN SubSeq(running.array, 1, running.next - 1)
                ELSE running.array

\* a broadcast is through an array of two or more entries, and the calls of
\* its listeners have changed the registry and added a listener meanwhile
C16_Witness ==
    /\ Broadcasting
    /\ running.next > Len(running.array)
    /\ Len(running.array) >= 2
    /\ subscribers # running.array
    /\ \E h \in Handlers :
          h \in Range(subscribers) /\ h \notin Range(running.array)

\* C17: a sample is evaluated with the props the Sticky has when it handles
\* it: after topOffset, bottomOffset, relative or
\* disableHardwareAcceleration changed, the next sample's isSticky and style
\* are those the new values give.
C17_SampleUsesCurrentProps ==
    [][\A f \in rafQueue, rect \in Rects, h \in Heights :
          Fire(f, rect, h) =>
             \A s \in Stickies :
                Handles(f, s) =>
                   LET now == handleContainerEvent(
                                 [props |-> props[s], state |-> state[s]],
                                 rect, scrollTop, h)
                   IN  /\ state'[s].isSticky = now.isSticky
                       /\ state'[s].style = now.style]_vars

\* the isSticky and the style of a sample, on the props the handler holds
SampleUsesClosureProps ==
    [][\A f \in rafQueue, rect \in Rects, h \in Heights :
          Fire(f, rect, h) =>
             \A s \in Stickies :
                Handles(f, s) =>
                   LET then == handleContainerEvent(
                                  [props |-> closure[s].props, state |-> state[s]],
                                  rect, scrollTop, h)
                   IN  /\ state'[s].isSticky = then.isSticky
                       /\ state'[s].style = then.style]_vars

\* the entries of a registry that are the handler h
Count(h, registry) ==
    Cardinality({i \in 1 .. Len(registry) : registry[i] = h})

\* C18: subscribe appends its handler, registered already or not; a
\* broadcast starts on the registry as it is and invokes every entry of it
\* once, in registry order, so a handler registered k times is invoked k
\* times.
C18_DuplicatesInvokedEachTime ==
    [][/\ \A h \in Handlers :
            CallSubscribe(h) =>
               /\ subscribers' = Append(subscribers, h)
               /\ Count(h, subscribers') = Count(h, subscribers) + 1
       /\ \A f \in rafQueue : BeginBroadcast(f) => f.subscribers = subscribers
       /\ EndBroadcast =>
            /\ delivered = running.array
            /\ \A h \in Handlers :
                  Count(h, delivered) = Count(h, running.array)]_vars

\* a broadcast has returned that invoked a handler registered twice twice
C18_Witness ==
    /\ ~Broadcasting
    /\ \E h \in Handlers : Count(h, delivered) = 2 /\ Count(h, running.array) = 2

\* C19: handling is idempotent: a Sticky that is handed the sample it
\* handled last, with the geometry and its props as they were, publishes the
\* same isSticky and the same style, and its placeholder keeps its padding.
C19_SameSampleSameResult ==
    [][\A f \in rafQueue, rect \in Rects, h \in Heights :
          Fire(f, rect, h) =>
             \A s \in Stickies :
                (Handles(f, s) /\ SameSample(s, rect, h)) =>
                   /\ state'[s].isSticky = state[s].isSticky
                   /\ state'[s].style = state[s].style
                   /\ padding'[s] = padding[s]]_vars

\* a Sticky was handed the same sample twice in a row and is sticky, with a
\* style and a compensating padding
C19_Witness ==
    /\ repeated
    /\ \E s \in Stickies :
          /\ status[s] = "mounted"
          /\ state[s].isSticky
          /\ DOMAIN state[s].style # {}
          /\ PaddingValue(padding[s]) > 0

---------------------------------------------------------------------------
(* What the subscribed handler does where C3 and C10 name the Sticky's      *)
(* offsets: it works with the props of the render that created it.          *)

\* the isSticky formula of C3, on the props the subscribed handler holds
IsStickyFormulaOnClosureProps ==
    [][\A f \in rafQueue, rect \in Rects, h \in Heights :
          Fire(f, rect, h) =>
             \A s \in Stickies :
                (Handles(f, s) /\ ~closure[s].props.relative) =>
                   state'[s].isSticky =
                      (/\ rect.top <= -closure[s].props.topOffset
                       /\ rect.bottom > -closure[s].props.bottomOffset)]_vars

\* the fixed style of C10, on the props the subscribed handler holds
FixedTopOnClosureProps ==
    [][\A f \in rafQueue, rect \in Rects, h \in Heights :
          Fire(f, rect, h) =>
             \A s \in Stickies :
                (/\ Handles(f, s)
                 /\ ~closure[s].props.relative
                 /\ state'[s].isSticky) =>
                   LET bottomDifference ==
                          rect.bottom - closure[s].props.bottomOffset - h
                   IN  /\ state'[s].style.position = "fixed"
                       /\ state'[s].style.top =
                             IF bottomDifference > 0 THEN 0 ELSE bottomDifference
                       /\ state'[s].style.top <= 0]_vars

====
